---- MODULE Spec2Model ----
(***************************************************************************)
(* Model of wf/__init__.py: the ClipKIT trimming task trim_aln_task0 and   *)
(* the clipkit workflow that forwards to it.  One execution is modelled    *)
(* statement by statement: the call binds the parameters (with their       *)
(* defaults), the task resolves the output path, defaults a falsy gap      *)
(* threshold, builds the argument list, runs the external process with     *)
(* subprocess.run and wraps the output path into a LatchFile.              *)
(*                                                                         *)
(* Python values are tagged records, so that None, str, pathlib.Path and   *)
(* float stay different values and str() is a real conversion.  A float is *)
(* a sign and a magnitude in tenths (0.9 is tenths 9), or nan; -0.0 is the *)
(* negative float of magnitude zero.                                       *)
(***************************************************************************)
EXTENDS Naturals, Sequences, FiniteSets, TLC

VARIABLES
    cwd,                \* the process's current directory, as path components
    link,               \* {} or {target}: cwd/trimmed_aln.fna is a symlink to target
    pc,                 \* position of the execution
    entry,              \* "none", "workflow" or "task": what the caller invoked
    wf_call,            \* the arguments the caller gave to the workflow clipkit
    task_call,          \* the arguments trim_aln_task0 was called with
    aln_fasta,          \* parameter of trim_aln_task0
    output_file_name,   \* parameter of trim_aln_task0
    gap_threshold,      \* parameter and local of trim_aln_task0
    trimming_mode,      \* parameter of trim_aln_task0
    trimmed_aln_fasta,  \* local of trim_aln_task0
    clipkit_cmd,        \* local _clipkit_cmd of trim_aln_task0
    proc,               \* the external process of subprocess.run
    runs,               \* how many times this execution has called subprocess.run
    task_ret,           \* what trim_aln_task0 returned
    wf_ret,             \* what the workflow clipkit returned
    error               \* the exception that ended the execution, or "none"

vars == <<cwd, link, pc, entry, wf_call, task_call, aln_fasta, output_file_name,
          gap_threshold, trimming_mode, trimmed_aln_fasta, clipkit_cmd, proc,
          runs, task_ret, wf_ret, error>>

----------------------------------------------------------------------------
(* Bounds of the model. *)

\* gap thresholds range over -MaxTenths/10 .. MaxTenths/10 in steps of 0.1
MaxTenths == 11

----------------------------------------------------------------------------
(* Python values. *)

None == [tag |-> "None"]
Omitted == [tag |-> "omitted"]      \* an argument the caller did not pass
Str(s) == [tag |-> "str", s |-> s]
PathV(parts) == [tag |-> "Path", parts |-> parts]
Float(neg, tenths) == [tag |-> "float", nan |-> FALSE, neg |-> neg, tenths |-> tenths]
NaN == [tag |-> "float", nan |-> TRUE, neg |-> FALSE, tenths |-> 0]
Mode(m) == [tag |-> "TrimmingMode", name |-> m]
LatchFile(path, remote_path) == [tag |-> "LatchFile", path |-> path, remote_path |-> remote_path]

\* Python truthiness ("not x" is ~Truthy(x)): None, "" and 0.0/-0.0 are falsy,
\* nan and every other float, and every non-empty str, are truthy.
Truthy(v) ==
    CASE v.tag = "None" -> FALSE
      [] v.tag = "str" -> v.s # ""
      [] v.tag = "float" -> v.nan \/ v.tenths # 0
      [] OTHER -> TRUE

\* "/" followed by the components joined with "/": str() of an absolute PosixPath
RECURSIVE JoinParts(_)
JoinParts(parts) ==
    IF parts = <<>> THEN ""
    ELSE "/" \o Head(parts) \o JoinParts(Tail(parts))

PathStr(parts) == IF parts = <<>> THEN "/" ELSE JoinParts(parts)

\* str(float): repr of the float, e.g. 0.9 -> "0.9", 1.0 -> "1.0", -0.5 -> "-0.5"
FloatStr(f) ==
    IF f.nan THEN "nan"
    ELSE (IF f.neg THEN "-" ELSE "") \o ToString(f.tenths \div 10) \o "."
         \o ToString(f.tenths % 10)

\* Python's str(v), also what an f-string substitutes for {v}
PyStr(v) ==
    CASE v.tag = "str" -> v.s
      [] v.tag = "Path" -> PathStr(v.parts)
      [] v.tag = "float" -> FloatStr(v)
      [] v.tag = "None" -> "None"

\* Path(file).resolve() in directory dir: the absolute path, symlinks followed
Resolve(dir, lnk, file) ==
    IF lnk = {} THEN dir \o <<file>> ELSE CHOOSE t \in lnk : TRUE

----------------------------------------------------------------------------
(* class TrimmingMode(Enum) *)

TrimmingMode == {"gappy", "smart_gap", "kpi", "kpi_gappy", "kpi_smart_gap",
                 "kpic", "kpic_gappy", "kpic_smart_gap"}

\* a plausible slip: a member's value spelled like its name
TrimmingModeValueByName(m) == m

\* member.value
TrimmingModeValue(m) ==
    CASE m = "gappy" -> "gappy"
      [] m = "smart_gap" -> "smart-gap"
      [] m = "kpi" -> "kpi"
      [] m = "kpi_gappy" -> "kpi-gappy"
      [] m = "kpi_smart_gap" -> "kpi-smart-gap"
      [] m = "kpic" -> "kpic"
      [] m = "kpic_gappy" -> "kpic-gappy"
      [] m = "kpic_smart_gap" -> "kpic-smart-gap"

----------------------------------------------------------------------------
(* The inputs an execution is explored with. *)

Dirs == {<<>>, <<"root">>}
LinkTargets == {<<"data", "kept.fna">>}
LocalPaths == {"/root/aln.fasta", "/root/absent.fasta"}
ExistingFiles == {"/root/aln.fasta"}
OutputNames == {None, Str(""), Str("out.fa"), Str("../res/out.fa")}
Floats == {Float(n, t) : n \in BOOLEAN, t \in 0..MaxTenths} \cup {NaN}
AlnFiles == {[tag |-> "LatchFile", local_path |-> p] : p \in LocalPaths}

\* a parameter's value: the argument, or the declared default when omitted
Bind(arg, default) == IF arg = Omitted THEN default ELSE arg

----------------------------------------------------------------------------
(* trim_aln_task0 *)

\* the parameters of trim_aln_task0 for a call: gap_threshold and
\* trimming_mode have defaults, output_file_name has none
TaskParams(call) ==
    [aln_fasta |-> call.aln_fasta,
     output_file_name |-> call.output_file_name,
     gap_threshold |-> Bind(call.gap_threshold, Float(FALSE, 9)),
     trimming_mode |-> Bind(call.trimming_mode, Mode("smart_gap"))]

\* a plausible slip: the default name left relative, resolve() forgotten
ResolveOutputUnresolved(name, dir, lnk) ==
    IF ~Truthy(name) THEN Str("trimmed_aln.fna") ELSE name

\* "if not output_file_name: ... else: ..."
ResolveOutput(name, dir, lnk) ==
    IF ~Truthy(name) THEN PathV(Resolve(dir, lnk, "trimmed_aln.fna")) ELSE name

\* a plausible slip: "if gap_threshold is None", which keeps an explicit zero
EffectiveThresholdNoneOnly(g) == IF g = None THEN Float(FALSE, 9) ELSE g

\* a plausible slip: the threshold clamped into the range 0.0 .. 1.0
EffectiveThresholdClamped(g) ==
    IF ~Truthy(g) THEN Float(FALSE, 9)
    ELSE IF g.nan THEN g
    ELSE IF g.neg THEN Float(FALSE, 0)
    ELSE IF g.tenths > 10 THEN Float(FALSE, 10)
    ELSE g

\* "if not gap_threshold: gap_threshold=0.9"
EffectiveThreshold(g) == IF ~Truthy(g) THEN Float(FALSE, 9) ELSE g

\* a plausible slip: the threshold left out of the argument list
ClipkitCmdNoGap(aln, out, mode, gap) ==
    <<"clipkit", aln.local_path, "-o", PyStr(out), "-m", TrimmingModeValue(mode.name)>>

\* the list _clipkit_cmd
ClipkitCmd(aln, out, mode, gap) ==
    <<"clipkit", aln.local_path, "-o", PyStr(out), "-m",
      TrimmingModeValue(mode.name), "-g", PyStr(gap)>>

\* a plausible slip: the process started without waiting for it (Popen)
RunReturnsAtOnce(state) == TRUE

\* subprocess.run waits for the process: it returns once the process has exited
RunReturns(state) == state = "exited"

\* a plausible change: check=True, a nonzero exit status raises
RunRaisesChecked(returncode) == returncode # 0

\* subprocess.run is called without check=True: no exit status makes it raise
RunRaises(returncode) == FALSE

\* a plausible slip: the remote destination built from the file's name alone
MakeHandleFixedRemote(out) == LatchFile(PyStr(out), "latch:///trimmed_aln.fna")

\* LatchFile(str(trimmed_aln_fasta), f"latch:///{trimmed_aln_fasta}")
MakeHandle(out) == LatchFile(PyStr(out), "latch:///" \o PyStr(out))

NoProc == [state |-> "none", argv |-> <<>>, returncode |-> 0, wrote |-> FALSE]

\* the task is entered with the arguments of `call`
EnterTask(call) ==
    /\ task_call' = call
    /\ aln_fasta' = TaskParams(call).aln_fasta
    /\ output_file_name' = TaskParams(call).output_file_name
    /\ gap_threshold' = TaskParams(call).gap_threshold
    /\ trimming_mode' = TaskParams(call).trimming_mode
    /\ pc' = "set_output"

\* a caller invokes the task directly
trim_aln_task0 ==
    /\ pc = "idle"
    /\ \E a \in AlnFiles, o \in OutputNames, g \in Floats \cup {Omitted},
          m \in {Mode(x) : x \in TrimmingMode} \cup {Omitted} :
          EnterTask([aln_fasta |-> a, output_file_name |-> o,
                     gap_threshold |-> g, trimming_mode |-> m])
    /\ entry' = "task"
    /\ UNCHANGED <<cwd, link, wf_call, trimmed_aln_fasta, clipkit_cmd, proc, runs,
                   task_ret, wf_ret, error>>

\* lines 31-35: set output file name
SetOutput ==
    /\ pc = "set_output"
    /\ trimmed_aln_fasta' = ResolveOutput(output_file_name, cwd, link)
    /\ pc' = "set_gap"
    /\ UNCHANGED <<cwd, link, entry, wf_call, task_call, aln_fasta, output_file_name,
                   gap_threshold, trimming_mode, clipkit_cmd, proc, runs, task_ret,
                   wf_ret, error>>

\* lines 37-39: set gap threshold if the user did not provide a value
SetGap ==
    /\ pc = "set_gap"
    /\ gap_threshold' = EffectiveThreshold(gap_threshold)
    /\ pc' = "build_cmd"
    /\ UNCHANGED <<cwd, link, entry, wf_call, task_call, aln_fasta, output_file_name,
                   trimming_mode, trimmed_aln_fasta, clipkit_cmd, proc, runs, task_ret,
                   wf_ret, error>>

\* lines 41-50: build the argument list
BuildCmd ==
    /\ pc = "build_cmd"
    /\ clipkit_cmd' = ClipkitCmd(aln_fasta, trimmed_aln_fasta, trimming_mode,
                                 gap_threshold)
    /\ pc' = "run"
    /\ UNCHANGED <<cwd, link, entry, wf_call, task_call, aln_fasta, output_file_name,
                   gap_threshold, trimming_mode, trimmed_aln_fasta, proc, runs,
                   task_ret, wf_ret, error>>

\* line 52: subprocess.run starts the process and waits for it
RunStart ==
    /\ pc = "run"
    /\ runs' = runs + 1
    /\ proc' = [NoProc EXCEPT !.state = "running", !.argv = clipkit_cmd]
    /\ pc' = "wait"
    /\ UNCHANGED <<cwd, link, entry, wf_call, task_call, aln_fasta, output_file_name,
                   gap_threshold, trimming_mode, trimmed_aln_fasta, clipkit_cmd,
                   task_ret, wf_ret, error>>

\* line 52: the executable cannot be started; subprocess.run raises OSError
RunSpawnFails ==
    /\ pc = "run"
    /\ runs' = runs + 1
    /\ proc' = [NoProc EXCEPT !.state = "not_started", !.argv = clipkit_cmd]
    /\ error' = "OSError"
    /\ pc' = "raised"
    /\ UNCHANGED <<cwd, link, entry, wf_call, task_call, aln_fasta, output_file_name,
                   gap_threshold, trimming_mode, trimmed_aln_fasta, clipkit_cmd,
                   task_ret, wf_ret>>

\* the external tool ends, with any exit status, having written its output
\* file or not; without its input file it writes none
ProcessExits ==
    /\ proc.state = "running"
    /\ \E rc \in {0, 1}, w \in BOOLEAN :
          /\ (w => proc.argv[2] \in ExistingFiles)
          /\ proc' = [proc EXCEPT !.state = "exited", !.returncode = rc, !.wrote = w]
    /\ UNCHANGED <<cwd, link, pc, entry, wf_call, task_call, aln_fasta,
                   output_file_name, gap_threshold, trimming_mode, trimmed_aln_fasta,
                   clipkit_cmd, runs, task_ret, wf_ret, error>>

\* line 52: subprocess.run returns; its CompletedProcess is discarded
RunReturn ==
    /\ pc = "wait"
    /\ RunReturns(proc.state)
    /\ IF RunRaises(proc.returncode)
       THEN pc' = "raised" /\ error' = "CalledProcessError"
       ELSE pc' = "return" /\ error' = error
    /\ UNCHANGED <<cwd, link, entry, wf_call, task_call, aln_fasta, output_file_name,
                   gap_threshold, trimming_mode, trimmed_aln_fasta, clipkit_cmd, proc,
                   runs, task_ret, wf_ret>>

\* line 54: return the LatchFile
Return ==
    /\ pc = "return"
    /\ task_ret' = MakeHandle(trimmed_aln_fasta)
    /\ pc' = "task_done"
    /\ UNCHANGED <<cwd, link, entry, wf_call, task_call, aln_fasta, output_file_name,
                   gap_threshold, trimming_mode, trimmed_aln_fasta, clipkit_cmd, proc,
                   runs, wf_ret, error>>

----------------------------------------------------------------------------
(* the workflow clipkit *)

\* the parameters of clipkit for a call, with their declared defaults
ClipkitParams(call) ==
    [aln_fasta |-> call.aln_fasta,
     output_file_name |-> Bind(call.output_file_name, None),
     gap_threshold |-> Bind(call.gap_threshold, Float(FALSE, 9)),
     trimming_mode |-> Bind(call.trimming_mode, Mode("smart_gap"))]

\* a plausible slip: gap_threshold not passed on, so the task's default applies
ForwardArgsDropGap(p) ==
    [aln_fasta |-> p.aln_fasta,
     output_file_name |-> p.output_file_name,
     gap_threshold |-> Omitted,
     trimming_mode |-> p.trimming_mode]

\* the keyword arguments of the call "trim_aln_task0(aln_fasta=aln_fasta, ...)"
ForwardArgs(p) ==
    [aln_fasta |-> p.aln_fasta,
     output_file_name |-> p.output_file_name,
     gap_threshold |-> p.gap_threshold,
     trimming_mode |-> p.trimming_mode]

\* "return trim_aln_task0(...)": the value the workflow returns
WorkflowResult(r) == r

\* a caller invokes the workflow, which calls the task
clipkit ==
    /\ pc = "idle"
    /\ \E a \in AlnFiles, o \in OutputNames \cup {Omitted}, g \in Floats \cup {Omitted},
          m \in {Mode(x) : x \in TrimmingMode} \cup {Omitted} :
          /\ wf_call' = [aln_fasta |-> a, output_file_name |-> o,
                         gap_threshold |-> g, trimming_mode |-> m]
          /\ EnterTask(ForwardArgs(ClipkitParams(wf_call')))
    /\ entry' = "workflow"
    /\ UNCHANGED <<cwd, link, trimmed_aln_fasta, clipkit_cmd, proc, runs, task_ret,
                   wf_ret, error>>

\* the workflow returns what the task returned
clipkit_return ==
    /\ pc = "task_done"
    /\ entry = "workflow"
    /\ wf_ret' = WorkflowResult(task_ret)
    /\ pc' = "done"
    /\ UNCHANGED <<cwd, link, entry, wf_call, task_call, aln_fasta, output_file_name,
                   gap_threshold, trimming_mode, trimmed_aln_fasta, clipkit_cmd, proc,
                   runs, task_ret, error>>

----------------------------------------------------------------------------
(* The specification: one execution in an arbitrary directory. *)

Init ==
    /\ cwd \in Dirs
    /\ link \in {{}} \cup {{t} : t \in LinkTargets}
    /\ pc = "idle"
    /\ entry = "none"
    /\ wf_call = None
    /\ task_call = None
    /\ aln_fasta = None
    /\ output_file_name = None
    /\ gap_threshold = None
    /\ trimming_mode = None
    /\ trimmed_aln_fasta = None
    /\ clipkit_cmd = <<>>
    /\ proc = NoProc
    /\ runs = 0
    /\ task_ret = None
    /\ wf_ret = None
    /\ error = "none"

Next ==
    \/ trim_aln_task0
    \/ clipkit
    \/ SetOutput
    \/ SetGap
    \/ BuildCmd
    \/ RunStart
    \/ RunSpawnFails
    \/ ProcessExits
    \/ RunReturn
    \/ Return
    \/ clipkit_return

Spec == Init /\ [][Next]_vars

----------------------------------------------------------------------------
(* What the properties below talk about. *)

\* the argument list has been built
Built == clipkit_cmd # <<>>

\* trim_aln_task0 has returned its handle
Returned == pc \in {"task_done", "done"}

\* trimmed_aln.fna resolved against the current directory, as a string
DefaultOutputPath ==
    IF link = {} THEN PathStr(cwd \o <<"trimmed_aln.fna">>)
    ELSE PathStr(CHOOSE t \in link : TRUE)

\* the mode strings the external tool understands, by enumeration member
ModeStrings ==
    [gappy |-> "gappy", smart_gap |-> "smart-gap", kpi |-> "kpi",
     kpi_gappy |-> "kpi-gappy", kpi_smart_gap |-> "kpi-smart-gap", kpic |-> "kpic",
     kpic_gappy |-> "kpic-gappy", kpic_smart_gap |-> "kpic-smart-gap"]

\* the gap threshold the task was called with is omitted or falsy
GapUnset == task_call.gap_threshold = Omitted \/ ~Truthy(task_call.gap_threshold)

\* the output name the task was called with is None or the empty string
NameUnset == task_call.output_file_name \in {None, Str("")}

\* the output path, mode and threshold strings the call's arguments ask for
WantedOut == IF NameUnset THEN DefaultOutputPath ELSE task_call.output_file_name.s
WantedMode ==
    IF task_call.trimming_mode = Omitted THEN "smart-gap"
    ELSE ModeStrings[task_call.trimming_mode.name]
WantedGap == IF GapUnset THEN "0.9" ELSE FloatStr(task_call.gap_threshold)

----------------------------------------------------------------------------
(* The properties. *)

\* C1: for each of the eight TrimmingMode members, and whatever the other
\* inputs are, the argument after "-m" in the built command is that member's
\* string value: gappy, smart-gap, kpi, kpi-gappy, kpi-smart-gap, kpic,
\* kpic-gappy, kpic-smart-gap.
C1_ModeFlagIsEnumValue ==
    Built =>
        /\ clipkit_cmd[5] = "-m"
        /\ \A m \in TrimmingMode :
              trimming_mode = Mode(m) => clipkit_cmd[6] = ModeStrings[m]
        /\ task_call.trimming_mode # Omitted => trimming_mode = task_call.trimming_mode

C1_Witness ==
    /\ Returned
    /\ task_call.trimming_mode = Mode("kpic_smart_gap")
    /\ clipkit_cmd[6] = "kpic-smart-gap"

\* C2: when gap_threshold is omitted or falsy (0.0, -0.0), the argument after
\* "-g" in the built command is "0.9".
C2_FalsyThresholdBecomesDefault ==
    (Built /\ GapUnset) => clipkit_cmd[7] = "-g" /\ clipkit_cmd[8] = "0.9"

C2_Witness ==
    /\ Returned
    /\ task_call.gap_threshold = Float(FALSE, 0)
    /\ clipkit_cmd[8] = "0.9"

\* C3 as stated: with output_file_name None the output path is trimmed_aln.fna
\* resolved against the current directory, and with any supplied string it is
\* exactly that string.
C3_AnySuppliedNameVerbatim ==
    Built =>
        IF task_call.output_file_name = None
        THEN clipkit_cmd[4] = DefaultOutputPath
        ELSE clipkit_cmd[4] = task_call.output_file_name.s

\* C3 amended: with output_file_name None or the empty string the output
\* path is trimmed_aln.fna resolved against the current directory; with a
\* non-empty string it is exactly that string, unresolved and unsanitised.
C3_OutputPathDefaultOrVerbatim ==
    Built =>
        IF NameUnset
        THEN /\ trimmed_aln_fasta.tag = "Path"
             /\ clipkit_cmd[4] = DefaultOutputPath
        ELSE /\ trimmed_aln_fasta = task_call.output_file_name
             /\ clipkit_cmd[4] = task_call.output_file_name.s

C3_Witness ==
    /\ Returned
    /\ task_call.output_file_name = Str("")
    /\ cwd = <<"root">>
    /\ link = {}
    /\ clipkit_cmd[4] = "/root/trimmed_aln.fna"

\* C4: the command that is built, and the command the process is started
\* with, is the eight-element list "clipkit", the input's local path, "-o",
\* the output path, "-m", the mode value, "-g", the effective threshold.
C4_CommandIsEightArguments ==
    /\ Built =>
          /\ Len(clipkit_cmd) = 8
          /\ clipkit_cmd = <<"clipkit", task_call.aln_fasta.local_path, "-o", WantedOut,
                             "-m", WantedMode, "-g", WantedGap>>
    /\ proc.state # "none" => Built /\ proc.argv = clipkit_cmd

C4_Witness ==
    /\ proc.state = "exited"
    /\ proc.argv = <<"clipkit", "/root/aln.fasta", "-o", "../res/out.fa", "-m", "kpi-gappy",
                     "-g", "0.7">>

\* C5: the returned handle's local path is the output path passed after "-o",
\* and its remote destination is "latch:///" followed by that same path.
C5_HandlePointsAtOutputPath ==
    Returned =>
        /\ task_ret.tag = "LatchFile"
        /\ task_ret.path = proc.argv[4]
        /\ task_ret.remote_path = "latch:///" \o proc.argv[4]
        /\ proc.argv[3] = "-o"

C5_Witness ==
    /\ Returned
    /\ task_call.output_file_name = None
    /\ task_ret = LatchFile("/root/trimmed_aln.fna", "latch:////root/trimmed_aln.fna")

\* the task's parameters for the arguments the workflow's caller gave, with the
\* workflow's defaults: output_file_name None, gap_threshold 0.9, smart-gap
C6_Forwarded ==
    [aln_fasta |-> wf_call.aln_fasta,
     output_file_name |->
        IF wf_call.output_file_name = Omitted THEN None ELSE wf_call.output_file_name,
     gap_threshold |->
        IF wf_call.gap_threshold = Omitted THEN Float(FALSE, 9) ELSE wf_call.gap_threshold,
     trimming_mode |->
        IF wf_call.trimming_mode = Omitted THEN Mode("smart_gap")
        ELSE wf_call.trimming_mode]

\* the command and the handle of the task called directly with `call`
C6_DirectCmd(call) ==
    ClipkitCmd(TaskParams(call).aln_fasta,
               ResolveOutput(TaskParams(call).output_file_name, cwd, link),
               TaskParams(call).trimming_mode,
               EffectiveThreshold(TaskParams(call).gap_threshold))
C6_DirectHandle(call) ==
    MakeHandle(ResolveOutput(TaskParams(call).output_file_name, cwd, link))

\* C6: the workflow passes its four parameters to the task unchanged (an
\* omitted one as its default: None, 0.9, smart-gap) and returns the task's
\* result unchanged, so its command and result are those of the task called
\* directly with the same values.
C6_WorkflowForwardsUnchanged ==
    /\ (entry = "task" /\ Built) => clipkit_cmd = C6_DirectCmd(task_call)
    /\ (entry = "task" /\ Returned) => task_ret = C6_DirectHandle(task_call)
    /\ entry = "workflow" =>
          /\ task_call = C6_Forwarded
          /\ Built => clipkit_cmd = C6_DirectCmd(C6_Forwarded)
          /\ pc = "done" =>
                wf_ret = task_ret /\ wf_ret = C6_DirectHandle(C6_Forwarded)
          /\ pc # "done" => wf_ret = None
          /\ (/\ Built
              /\ wf_call.output_file_name = Omitted
              /\ wf_call.gap_threshold = Omitted
              /\ wf_call.trimming_mode = Omitted) =>
                clipkit_cmd = <<"clipkit", wf_call.aln_fasta.local_path, "-o",
                                DefaultOutputPath, "-m", "smart-gap", "-g", "0.9">>

C6_Witness ==
    /\ pc = "done"
    /\ wf_call = [aln_fasta |-> [tag |-> "LatchFile", local_path |-> "/root/aln.fasta"],
                  output_file_name |-> Omitted, gap_threshold |-> Omitted,
                  trimming_mode |-> Omitted]
    /\ cwd = <<>>
    /\ link = {}
    /\ clipkit_cmd = <<"clipkit", "/root/aln.fasta", "-o", "/trimmed_aln.fna", "-m",
                       "smart-gap", "-g", "0.9">>
    /\ wf_ret = LatchFile("/trimmed_aln.fna", "latch:////trimmed_aln.fna")

\* C7: a task that has run the tool on an input path that does not exist
\* ends with an "input not found" error and returns no handle.
C7_MissingInputIsReported ==
    (/\ pc \in {"task_done", "done", "raised"}
     /\ proc.state = "exited"
     /\ aln_fasta.local_path \notin ExistingFiles) =>
        error = "InputNotFound" /\ task_ret = None

\* C8: whatever the outcome of the process (exit status 0 or not, output file
\* written or not), the task raises nothing and returns the handle that the
\* output path alone determines; an exception ends the task only when no
\* process was started.
C8_ProcessOutcomeIgnored ==
    /\ proc.state = "exited" => error = "none" /\ pc # "raised"
    /\ (proc.state = "exited" /\ pc = "wait") => ENABLED RunReturn
    /\ Returned =>
          /\ error = "none"
          /\ task_ret = LatchFile(WantedOut, "latch:///" \o WantedOut)
    /\ pc = "raised" => proc.state = "not_started" /\ task_ret = None

C8_Witness ==
    /\ Returned
    /\ proc.returncode = 1
    /\ ~proc.wrote
    /\ error = "none"
    /\ task_ret = LatchFile("out.fa", "latch:///out.fa")

\* C9: an execution calls subprocess.run at most once, exactly once by the
\* time it ends, and the handle is returned only after the one process it
\* started has exited.
C9_OneSynchronousRun ==
    /\ runs <= 1
    /\ pc \in {"wait", "return", "task_done", "done", "raised"} => runs = 1
    /\ pc \in {"return", "task_done", "done"} => proc.state = "exited"
    /\ task_ret # None => proc.state = "exited"
    /\ proc.state = "running" => pc = "wait"

C9_Witness ==
    /\ Returned
    /\ runs = 1
    /\ proc.state = "exited"
    /\ task_ret # None

\* C10: a truthy gap_threshold reaches the command as given, whatever its
\* range (below 0, above 1, nan); "0.9" is substituted only for a falsy one.
C10_TruthyThresholdUnchanged ==
    (Built /\ ~GapUnset) =>
        /\ gap_threshold = task_call.gap_threshold
        /\ clipkit_cmd[8] = FloatStr(task_call.gap_threshold)
        /\ clipkit_cmd[8] = "0.9" => task_call.gap_threshold = Float(FALSE, 9)

C10_Witness ==
    /\ Returned
    /\ task_call.gap_threshold = Float(TRUE, 5)
    /\ clipkit_cmd[8] = "-0.5"

====
